---- MODULE Spec2Model ----
(***************************************************************************)
(* Persistence layer of the auction scraper (src/scraper/storage.py), the  *)
(* commands that drive it (src/main.py) and the browser operations they    *)
(* call (src/scraper/browser.py).                                          *)
(*                                                                         *)
(* The two relations scraper.listings and scraper.details are sets of      *)
(* rows.  Every SQL statement is one atomic step; a call of upsert_detail  *)
(* issues two statements, so another worker's statement can run between    *)
(* them.  Column values are opaque tokens, NULL is the SQL null / Python   *)
(* None, timestamps are ticks of one clock.                                *)
(***************************************************************************)
EXTENDS Integers, Sequences, FiniteSets, TLC

\* ---------------------------------------------------------------- bounds
MaxClock == 3          \* number of SQL write statements in one behaviour
MaxInflight == 2      \* upsert_detail calls in progress at the same time
MaxLimit == 2          \* largest LIMIT passed to get_listings_without_details

\* ---------------------------------------------------------------- values
NULL == "null"
Vins == {"V1", "V2"}
Vals == {"x", "y"}
NoRec == [none |-> TRUE]
Limits == (0 - 1)..MaxLimit

\* Columns of scraper.listings besides the key and the two timestamps.
ListingFields ==
    {"vin", "url", "year", "make", "model", "trim", "miles", "current_bid",
     "buy_now_price", "condition", "damage_type", "secondary_damage",
     "location", "sale_date", "thumbnail_url"}

\* Variants of the DO UPDATE SET list: every column, and vin left out.
ListingUpdateColsAll == ListingFields
ListingUpdateColsNoVin == {"url", "current_bid", "buy_now_price", "sale_date"}

\* Columns named in the DO UPDATE SET list of upsert_listing.
ListingUpdateCols == {"vin", "url", "current_bid", "buy_now_price", "sale_date"}

\* Columns of scraper.details besides vin and scraped_at.
DetailFields ==
    {"id", "source_site", "engine", "transmission", "drive_type", "fuel_type",
     "color", "interior_color", "keys", "airbags", "seller", "title_type",
     "images", "description"}

\* Columns named in the DO UPDATE SET list of upsert_detail.
DetailUpdateCols == DetailFields

\* Attributes of CarListing that upsert_listing reads (besides vin).
CarListingAttrs == {"id", "source_site"} \cup (ListingFields \ {"vin"})

\* Attributes CarDetail adds to CarListing.
CarDetailAttrs ==
    CarListingAttrs \cup {"vin"} \cup (DetailFields \ {"id", "source_site"})

\* The input records are built from two tokens a and b, each NULL or a value,
\* spread over the attributes so that both the updated and the insert-only
\* columns receive NULL and non-NULL values.  Each column of a statement is
\* computed from that column alone, so the columns of one group may share
\* their token.
GroupA ==
    {"url", "buy_now_price", "year", "model", "miles", "damage_type",
     "location", "engine", "drive_type", "color", "keys", "seller",
     "description"}

\* images is List[str] with default []: never None.  The list is a token.
ImagesOf(b) == IF b = NULL THEN "[]" ELSE "[" \o b \o "]"

AttrValue(f, site, id, vin, a, b) ==
    CASE f = "id" -> id
      [] f = "source_site" -> site
      [] f = "vin" -> vin
      [] f = "images" -> ImagesOf(b)
      [] f \in GroupA -> a
      [] OTHER -> b

CarListing(site, id, a, b) ==
    [f \in CarListingAttrs |-> AttrValue(f, site, id, NULL, a, b)]

CarDetail(site, id, vin, a, b) ==
    [f \in CarDetailAttrs |-> AttrValue(f, site, id, vin, a, b)]

\* Keys (source_site, id) and (a, b) pairs the calls are made with.
Keys == {<<"copart", "L1">>, <<"iaai", "L1">>}
Shapes == {<<"x", NULL>>, <<"y", "x">>}

CarListings ==
    {CarListing(k[1], k[2], "x", "y") : k \in Keys}

CarDetails ==
    {CarDetail(k[1], k[2], v, ab[1], ab[2]) :
        k \in Keys, v \in Vins \cup {NULL}, ab \in Shapes}

HasAttr(r, f) == f \in DOMAIN r

\* ---------------------------------------------------------------- state
VARIABLES
    listings,     \* rows of scraper.listings
    details,      \* rows of scraper.details
    now,          \* the clock read by NOW() and datetime.utcnow()
    inflight,     \* upsert_detail calls between their two statements:
                  \* [rec: the CarDetail, intact: no other statement has
                  \* replaced the vin of its listing row since]
    queryResult,  \* the value returned by the last call (a list, or <<>>)
    last,         \* the last step: operation, argument, outcome, and
                  \* whether the step before was the same call
    dpc,          \* fetch_details: position of the command
    todo,         \* fetch_details: `listings', the rows to process
    idx,          \* fetch_details: 1-based position of the for loop in todo
    fetched,      \* fetch_details: the counter `fetched'
    errors,       \* fetch_details: the counter `errors'
    pool,         \* Storage.pool: "none", "open" or "closed"
    browser,      \* AuctionBrowser: "none", "started" or "closed"
    spc,          \* search: position of the command
    run,          \* search: the row of scraper.runs written by start_run
    completes,    \* search: number of complete_run writes on that row
    bound,        \* search: the locals of _search that are bound
    max_pages,    \* search: the option --max-pages
    page,         \* search: the local `page'
    total_listings, \* search: the local `total_listings'
    found,        \* search: the local `listings' of the current page
    extracted,    \* search: the listings extract_listings has returned so far
    events        \* search: what has happened in the run so far

storeVars == <<listings, details, now, inflight, queryResult>>
passVars == <<dpc, todo, idx, fetched, errors, pool, browser>>
searchVars == <<spc, run, completes, bound, max_pages, page, total_listings,
                found, extracted, events>>
vars == <<listings, details, now, inflight, queryResult, last,
          dpc, todo, idx, fetched, errors, pool, browser,
          spc, run, completes, bound, max_pages, page, total_listings,
          found, extracted, events>>

\* ---------------------------------------------------------------- SQL
\* Variant: the incoming value always wins.
CoalesceOverwrite(new, old) == new

Coalesce(new, old) == IF new # NULL THEN new ELSE old

\* Variant: the lot id alone identifies a listing.
SameKeyIdOnly(x, r) == x.id = r.id

SameKey(x, r) == x.source_site = r.source_site /\ x.id = r.id

ListingRowFields == ListingFields \cup {"id", "source_site", "scraped_at", "updated_at"}

\* VALUES ($1 .. $18, $18): the row a fresh key gets.
ListingInsertRow(r, t) ==
    [f \in ListingRowFields |->
        IF f \in {"scraped_at", "updated_at"} THEN t ELSE r[f]]

\* Variant: the conflict branch refreshes scraped_at as well.
ListingConflictRowRescrape(x, r, t) ==
    [f \in ListingRowFields |->
        CASE f \in ListingUpdateCols -> Coalesce(r[f], x[f])
          [] f \in {"updated_at", "scraped_at"} -> t
          [] OTHER -> x[f]]

\* ON CONFLICT (source_site, id) DO UPDATE SET ...
ListingConflictRow(x, r, t) ==
    [f \in ListingRowFields |->
        CASE f \in ListingUpdateCols -> Coalesce(r[f], x[f])
          [] f = "updated_at" -> t
          [] OTHER -> x[f]]

ListingConflict(rows, r) == \E x \in rows : SameKey(x, r)

\* Variant: the statement replaces whatever rows carry the record's VIN.
UpsertListingRowsByVin(rows, r, t) ==
    {x \in rows : ~(x.vin # NULL /\ x.vin = r.vin)}
        \cup {ListingInsertRow(r, t)}

UpsertListingRows(rows, r, t) ==
    IF ListingConflict(rows, r)
    THEN {IF SameKey(x, r) THEN ListingConflictRow(x, r, t) ELSE x : x \in rows}
    ELSE rows \cup {ListingInsertRow(r, t)}

DetailRowFields == DetailFields \cup {"vin", "scraped_at"}

DetailInsertRow(d, t) ==
    [f \in DetailRowFields |-> IF f = "scraped_at" THEN t ELSE d[f]]

\* Variant: the conflicting row is replaced by the incoming record.
DetailConflictRowReplace(x, d, t) ==
    [f \in DetailRowFields |-> IF f = "scraped_at" THEN t ELSE d[f]]

\* ON CONFLICT (vin) DO UPDATE SET ...
DetailConflictRow(x, d, t) ==
    [f \in DetailRowFields |->
        CASE f \in DetailUpdateCols -> Coalesce(d[f], x[f])
          [] f = "scraped_at" -> t
          [] OTHER -> x[f]]

\* Variant: the conflict target is (vin, source_site).
DetailConflictPerSite(rows, d) ==
    \E x \in rows : x.vin = d.vin /\ x.source_site = d.source_site

DetailConflict(rows, d) == \E x \in rows : x.vin = d.vin

UpsertDetailRows(rows, d, t) ==
    IF DetailConflict(rows, d)
    THEN {IF x.vin = d.vin THEN DetailConflictRow(x, d, t) ELSE x : x \in rows}
    ELSE rows \cup {DetailInsertRow(d, t)}

\* Variant: the VIN test is missing.
SkipsDetailNever(d) == FALSE

\* `if not detail.vin: return'
SkipsDetail(d) == d.vin = NULL

\* Variant: the join on details is missing.
WithoutDetailsNoJoin(ls, ds) == {l \in ls : l.vin # NULL}

\* LEFT JOIN scraper.details d ON l.vin = d.vin
\* WHERE l.vin IS NOT NULL AND d.vin IS NULL
WithoutDetails(ls, ds) ==
    {l \in ls : l.vin # NULL /\ ~(\E d \in ds : d.vin = l.vin)}

\* ORDER BY l.scraped_at DESC LIMIT n: every list the statement may return
\* (rows with equal scraped_at come in any order).
Min(a, b) == IF a < b THEN a ELSE b

OrderedLimit(rows, n) ==
    LET k == Min(n, Cardinality(rows)) IN
    {s \in [1..k -> rows] :
        /\ \A i, j \in 1..k : i < j =>
              s[i] # s[j] /\ s[i].scraped_at >= s[j].scraped_at
        /\ \A o \in rows : (\A i \in 1..k : s[i] # o) =>
              \A i \in 1..k : s[i].scraped_at >= o.scraped_at}

\* CarListing(**dict(row)): the model has no vin and no updated_at field,
\* pydantic ignores the extra keys.
RowToCarListing(row) ==
    [f \in CarListingAttrs \cup {"scraped_at"} |-> row[f]]

\* ---------------------------------------------------------------- Init
\* The database outlives the process: a run starts on an empty store or on
\* what an earlier upsert_detail call (for another lot of the first site) left.
SeedDetail == CarDetail("copart", "L2", "V1", "y", "x")

SeedStores ==
    {[listings |-> {}, details |-> {}],
     [listings |-> UpsertListingRows({}, SeedDetail, 0 - 1),
      details |-> UpsertDetailRows({}, SeedDetail, 0)]}

\* No fetch_details command is running.
PassIdle ==
    /\ dpc = "idle"
    /\ todo = <<>>
    /\ idx = 0
    /\ fetched = 0
    /\ errors = 0
    /\ pool = "none"
    /\ browser = "none"

\* No search command is running.
NoRun == [status |-> "none"]

SearchIdle ==
    /\ spc = "idle"
    /\ run = NoRun
    /\ completes = 0
    /\ bound = {}
    /\ max_pages = 0
    /\ page = 0
    /\ total_listings = 0
    /\ found = <<>>
    /\ extracted = <<>>
    /\ events = {}

Init ==
    /\ \E st \in SeedStores : listings = st.listings /\ details = st.details
    /\ now = 0
    /\ inflight = {}
    /\ queryResult = <<>>
    /\ last = [op |-> "init", rec |-> NoRec, outcome |-> "none", again |-> FALSE]
    /\ PassIdle
    /\ SearchIdle

\* A listing statement with record r: a call in flight on the same key whose
\* vin the statement replaces is no longer intact.
Disturb(calls, r) ==
    {[c EXCEPT !.intact = c.intact /\ ~(SameKey(c.rec, r) /\ r.vin # NULL
                                          /\ r.vin # c.rec.vin)] : c \in calls}

\* The record of a step that has just run.
Done(op, rec, outcome) ==
    [op |-> op, rec |-> rec, outcome |-> outcome,
     again |-> last.op = op /\ last.rec = rec]

\* ---------------------------------------------------------------- actions
\* Storage.upsert_listing.  listing.vin is read while the arguments of
\* conn.execute are evaluated: a CarListing has no such attribute, so the
\* call raises AttributeError before the statement is sent.
UpsertListing(r) ==
    /\ IF ~HasAttr(r, "vin")
       THEN /\ UNCHANGED <<listings, now, inflight>>
            /\ last' = Done("upsert_listing", r, "raised")
       ELSE /\ now < MaxClock
            /\ now' = now + 1
            /\ listings' = UpsertListingRows(listings, r, now')
            /\ inflight' = Disturb(inflight, r)
            /\ last' = Done("upsert_listing", r,
                            IF ListingConflict(listings, r)
                            THEN "merged" ELSE "inserted")
    /\ queryResult' = <<>>
    /\ UNCHANGED details
    /\ UNCHANGED <<passVars, searchVars>>

\* Storage.upsert_detail up to and including the VIN test: the listing
\* statement, then return when detail.vin is falsy.
UpsertDetailListing(d) ==
    /\ now < MaxClock
    /\ SkipsDetail(d) \/ Cardinality(inflight) < MaxInflight
    /\ \A c \in inflight : c.rec # d
    /\ now' = now + 1
    /\ listings' = UpsertListingRows(listings, d, now')
    /\ IF SkipsDetail(d)
       THEN /\ inflight' = Disturb(inflight, d)
            /\ last' = Done("upsert_detail", d, "skipped")
       ELSE /\ inflight' = Disturb(inflight, d) \cup {[rec |-> d, intact |-> TRUE]}
            /\ last' = Done("upsert_detail_listing", d,
                            IF ListingConflict(listings, d)
                            THEN "merged" ELSE "inserted")
    /\ queryResult' = <<>>
    /\ UNCHANGED details
    /\ UNCHANGED <<passVars, searchVars>>

\* Storage.upsert_detail, the statement on scraper.details.
UpsertDetailWrite(c) ==
    /\ c \in inflight
    /\ now < MaxClock
    /\ now' = now + 1
    /\ details' = UpsertDetailRows(details, c.rec, now')
    /\ inflight' = inflight \ {c}
    /\ last' = Done("upsert_detail", c.rec,
                    IF DetailConflict(details, c.rec)
                    THEN "merged" ELSE "inserted")
    /\ queryResult' = <<>>
    /\ UNCHANGED listings
    /\ UNCHANGED <<passVars, searchVars>>

\* Storage.get_listings_without_details.  PostgreSQL rejects a negative LIMIT.
GetListingsWithoutDetails(limit) ==
    /\ last.op # "get_listings_without_details"
    /\ IF limit < 0
       THEN /\ queryResult' = <<>>
            /\ last' = Done("get_listings_without_details",
                            [limit |-> limit], "raised")
       ELSE /\ \E s \in OrderedLimit(WithoutDetails(listings, details), limit) :
                 queryResult' = [i \in DOMAIN s |-> RowToCarListing(s[i])]
            /\ last' = Done("get_listings_without_details",
                            [limit |-> limit], "returned")
    /\ UNCHANGED <<listings, details, now, inflight>>
    /\ UNCHANGED <<passVars, searchVars>>

Next ==
    \/ \E r \in CarListings \cup CarDetails : UpsertListing(r)
    \/ \E d \in CarDetails : UpsertDetailListing(d)
    \/ \E c \in inflight : UpsertDetailWrite(c)
    \/ \E n \in Limits : GetListingsWithoutDetails(n)

Spec == Init /\ [][Next]_vars


\* ---------------------------------------------------------------- fetch_details
\* The command `fetch_details' (src/main.py), one flow on its own store: its
\* storage calls run to completion, an upsert_detail call is two statements
\* of which either may fail.

\* What the store may hold when the command starts: nothing, or three listing
\* rows written by upsert_listing calls (two sites, one row without url, two
\* rows sharing a VIN), with or without the detail row of the first.
PassListingA == CarDetail("copart", "L1", "V1", "x", NULL)
PassListingB == CarDetail("iaai", "L1", "V2", "y", "x")
PassListingC == CarDetail("copart", "L2", "V2", NULL, "y")

PassListings ==
    UpsertListingRows(
        UpsertListingRows(
            UpsertListingRows({}, PassListingA, 0 - 3),
            PassListingB, 0 - 2),
        PassListingC, 0 - 1)

PassStores ==
    {[listings |-> {}, details |-> {}],
     [listings |-> PassListings, details |-> {}],
     [listings |-> PassListings, details |-> UpsertDetailRows({}, PassListingA, 0)]}

InitPass ==
    /\ \E st \in PassStores : listings = st.listings /\ details = st.details
    /\ now = 0
    /\ inflight = {}
    /\ queryResult = <<>>
    /\ last = [op |-> "init", rec |-> NoRec, outcome |-> "none", again |-> FALSE]
    /\ PassIdle
    /\ SearchIdle

\* extract_detail(html, listing.id, listing.url): None, or the CarDetail built
\* from the model's answer with id and url falling back to the caller's and
\* source_site forced to "copart".  validate_vin leaves None or a valid VIN.
ExtractShapes == Shapes \cup {<<NULL, "y">>}
ModelIds == {NULL, "L2"}

ExtractedDetails(l) ==
    {[CarDetail("copart", IF mid # NULL THEN mid ELSE l.id, v, ab[1], ab[2])
        EXCEPT !.url = IF ab[1] # NULL THEN ab[1] ELSE l.url] :
        mid \in ModelIds, v \in Vins \cup {NULL}, ab \in ExtractShapes}

\* get_settings .. storage.connect (lines 242-252).  A missing setting raises
\* before the try block; a failed connect raises inside it.
DSetup(outcome) ==
    /\ dpc = "idle"
    /\ outcome \in {"config_error", "connect_raised", "connected"}
    /\ dpc' = CASE outcome = "config_error" -> "done"
                [] outcome = "connect_raised" -> "finally"
                [] OTHER -> "query"
    /\ pool' = IF outcome = "connected" THEN "open" ELSE pool
    /\ last' = Done("fetch_details.setup", NoRec, outcome)
    /\ UNCHANGED <<storeVars, todo, idx, fetched, errors, browser>>
    /\ UNCHANGED searchVars

\* listings = get_listings_without_details(limit); return when empty
\* (lines 256-262).
DQuery(limit) ==
    /\ dpc = "query"
    /\ IF limit < 0
       THEN /\ dpc' = "finally"
            /\ UNCHANGED <<todo, queryResult>>
            /\ last' = Done("fetch_details.query", [limit |-> limit], "raised")
       ELSE \E s \in OrderedLimit(WithoutDetails(listings, details), limit) :
            /\ todo' = [i \in DOMAIN s |-> RowToCarListing(s[i])]
            /\ queryResult' = todo'
            /\ dpc' = IF Len(s) = 0 THEN "finally" ELSE "browser"
            /\ last' = Done("fetch_details.query", [limit |-> limit],
                            IF Len(s) = 0 THEN "nothing_to_do" ELSE "returned")
    /\ UNCHANGED <<listings, details, now, inflight, idx, fetched, errors,
                   pool, browser>>
    /\ UNCHANGED searchVars

\* browser.start, load_cookies, login, save_cookies (lines 266-283).  The
\* session snapshot (cookies.json) is absent, unreadable, or readable and
\* then either still accepted by the site or stale; load_cookies returns
\* True exactly when it is readable (browser.py:278-291), and is_logged_in
\* is not called.
DSession(outcome, snapshot) ==
    /\ dpc = "browser"
    /\ snapshot \in {"absent", "unreadable", "accepted", "stale"}
    /\ outcome \in {"start_raised", "cookies_loaded", "login_failed",
                    "login_raised", "logged_in"}
    /\ outcome # "start_raised" =>
          (outcome = "cookies_loaded" <=> snapshot \in {"accepted", "stale"})
    /\ browser' = IF outcome = "start_raised" THEN browser ELSE "started"
    /\ dpc' = IF outcome \in {"cookies_loaded", "logged_in"}
              THEN "loop" ELSE "finally"
    /\ idx' = IF outcome \in {"cookies_loaded", "logged_in"} THEN 1 ELSE idx
    /\ last' = Done("fetch_details.session", [snapshot |-> snapshot], outcome)
    /\ UNCHANGED <<storeVars, todo, fetched, errors, pool>>
    /\ UNCHANGED searchVars

\* Variant: an extraction that returns None is reported but not counted.
CountedAsNoneSilent(outcome) ==
    CASE outcome \in {"navigation_raised", "listing_raised", "detail_raised"}
             -> "errors"
      [] outcome \in {"skipped", "saved"} -> "fetched"
      [] OTHER -> "none"

\* The counter an iteration adds one to: fetched += 1 after upsert_detail
\* returned (line 308), errors += 1 when extract_detail returned None (316)
\* and in the handler of Exception (320), none on `continue' (294-296).
CountedAs(outcome) ==
    CASE outcome \in {"navigation_raised", "no_detail", "listing_raised",
                      "detail_raised"} -> "errors"
      [] outcome \in {"skipped", "saved"} -> "fetched"
      [] OTHER -> "none"

\* One iteration of the for loop (lines 289-320).
DItem ==
    /\ dpc = "loop"
    /\ idx <= Len(todo)
    /\ idx' = idx + 1
    /\ queryResult' = <<>>
    /\ LET l == todo[idx] IN
       \/ /\ l.url = NULL
          /\ last' = Done("fetch_detail", l, "no_url")
          /\ UNCHANGED <<listings, details, now>>
       \/ /\ l.url # NULL
          /\ \E out \in {"navigation_raised", "no_detail"} :
                last' = Done("fetch_detail", l, out)
          /\ UNCHANGED <<listings, details, now>>
       \/ /\ l.url # NULL
          /\ \E d \in ExtractedDetails(l) :
             \/ /\ last' = Done("fetch_detail", d, "listing_raised")
                /\ UNCHANGED <<listings, details, now>>
             \/ /\ ~SkipsDetail(d)
                /\ last' = Done("fetch_detail", d, "detail_raised")
                /\ listings' = UpsertListingRows(listings, d, now + 1)
                /\ now' = now + 1
                /\ UNCHANGED details
             \/ /\ listings' = UpsertListingRows(listings, d, now + 1)
                /\ IF SkipsDetail(d)
                   THEN /\ now' = now + 1
                        /\ UNCHANGED details
                        /\ last' = Done("fetch_detail", d, "skipped")
                   ELSE /\ now' = now + 2
                        /\ details' = UpsertDetailRows(details, d, now + 2)
                        /\ last' = Done("fetch_detail", d, "saved")
    /\ fetched' = IF CountedAs(last'.outcome) = "fetched" THEN fetched + 1
                  ELSE fetched
    /\ errors' = IF CountedAs(last'.outcome) = "errors" THEN errors + 1
                 ELSE errors
    /\ UNCHANGED <<inflight, dpc, todo, pool, browser>>
    /\ UNCHANGED searchVars

\* The loop is exhausted: the summary is printed (lines 322-328).
DLoopEnd ==
    /\ dpc = "loop"
    /\ idx > Len(todo)
    /\ dpc' = "finally"
    /\ last' = Done("fetch_details.summary", NoRec, "printed")
    /\ UNCHANGED <<storeVars, todo, idx, fetched, errors, pool, browser>>
    /\ UNCHANGED searchVars

\* KeyboardInterrupt inside the try block (lines 330-331).
DInterrupt ==
    /\ dpc \in {"query", "browser", "loop"}
    /\ dpc' = "finally"
    /\ last' = Done("fetch_details.interrupt", NoRec, "interrupted")
    /\ UNCHANGED <<storeVars, todo, idx, fetched, errors, pool, browser>>
    /\ UNCHANGED searchVars

\* finally: browser.close() then storage.close() (lines 335-337).  close()
\* of a started browser may raise, and then storage.close() is not reached.
DRelease(outcome) ==
    /\ dpc = "finally"
    /\ outcome \in {"released", "browser_close_raised"}
    /\ outcome = "browser_close_raised" => browser = "started"
    /\ dpc' = "done"
    /\ browser' = IF browser = "started" /\ outcome = "released"
                  THEN "closed" ELSE browser
    /\ pool' = IF pool = "open" /\ outcome = "released" THEN "closed" ELSE pool
    /\ last' = Done("fetch_details.release", NoRec, outcome)
    /\ UNCHANGED <<storeVars, todo, idx, fetched, errors>>
    /\ UNCHANGED searchVars

NextPass ==
    \/ \E o \in {"config_error", "connect_raised", "connected"} : DSetup(o)
    \/ \E n \in Limits : DQuery(n)
    \/ \E o \in {"start_raised", "cookies_loaded", "login_failed",
                 "login_raised", "logged_in"},
          k \in {"absent", "unreadable", "accepted", "stale"} : DSession(o, k)
    \/ DItem
    \/ DLoopEnd
    \/ DInterrupt
    \/ \E o \in {"released", "browser_close_raised"} : DRelease(o)

SpecPass == InitPass /\ [][NextPass]_vars

\* ---------------------------------------------------------------- browser
\* AuctionBrowser (src/scraper/browser.py).  An operation is a function of
\* how its waits end: "ok" or "timeout" (playwright raises TimeoutError).
\* Its value is "true", "false", "html", or "raised" when an exception
\* leaves the operation.
WaitOutcomes == {"ok", "timeout"}

\* login: page.goto is outside any try; the fills and the click are safe and
\* their results are dropped; the wait for the result selector is inside try.
LoginWaits ==
    [goto : WaitOutcomes, fill : WaitOutcomes, click : WaitOutcomes,
     result : {"success", "error_message", "timeout"}]

Login(w) ==
    IF w.goto = "timeout" THEN "raised"
    ELSE IF w.result = "success" THEN "true"
    ELSE "false"

\* search: page.goto is outside any try; form waits are caught; the result of
\* the click on the search button is dropped; wait_for_load_state is inside try.
\* year_from and year_to: the criterion is not set, or select_option ends ok,
\* or it raises and the year is typed in.
SearchWaits ==
    [goto : WaitOutcomes, form : WaitOutcomes, dropdown : WaitOutcomes,
     year_from : WaitOutcomes \cup {"unset"}, year_to : WaitOutcomes \cup {"unset"},
     click : WaitOutcomes, settle : WaitOutcomes]

Search(w) ==
    IF w.goto = "timeout" THEN "raised"
    ELSE IF w.settle = "timeout" THEN "false"
    ELSE "true"

\* `sub in s' on Python strings.
Contains(s, sub) ==
    \E i \in 1..(Len(s) - Len(sub) + 1) : SubSeq(s, i, i + Len(sub) - 1) = sub

\* What query_selector and get_attribute find for the next-page control:
\* the lookup raises, there is no element, or the element with its disabled
\* attribute (NULL when absent, "" for a bare `disabled') and its class.
DisabledAttrs == {NULL, "", "disabled"}
ClassAttrs == {NULL, "next", "next disabled", "btn-disabled-link"}

Controls ==
    {[lookup |-> "raised"], [lookup |-> "none"]} \cup
    [lookup : {"element"}, disabled : DisabledAttrs, class : ClassAttrs]

\* Python truth value of an attribute value: None and "" are falsy.
Truthy(v) == v # NULL /\ v # ""

\* `not is_disabled' tests the truth value of the attribute's value.
IsDisabled(c) == Truthy(c.disabled)

\* has_next_page
HasNextPage(c) ==
    IF c.lookup # "element" THEN "false"
    ELSE LET class_name == IF Truthy(c.class) THEN c.class ELSE "" IN
         IF ~IsDisabled(c) /\ ~Contains(class_name, "disabled")
         THEN "true" ELSE "false"

\* go_next_page: the result of _safe_click is dropped.
NextPageWaits == [click : WaitOutcomes, settle : WaitOutcomes]

GoNextPage(c, w) ==
    IF HasNextPage(c) = "false" THEN "false"
    ELSE IF w.settle = "timeout" THEN "false"
    ELSE "true"

\* go_to_listing: page.goto is outside any try, the value is the page's HTML.
ListingWaits == [goto : WaitOutcomes]

GoToListing(w) == IF w.goto = "timeout" THEN "raised" ELSE "html"

\* _delay: random.randint draws from min_delay_ms..max_delay_ms, both ends
\* included.
DelayDraws(rate_limit) == rate_limit.min_delay_ms..rate_limit.max_delay_ms

\* The browser actions and delays of one call, in program order: "navigate"
\* (page.goto), "fill", "select", "click", "key" and "delay" (_delay).  An
\* element wait that expires leaves its action out; a page.goto that expires
\* ends the call.  search is called with make and model set.
Steps(op, rec) ==
    LET If(c, steps) == IF c THEN steps ELSE <<>>
        Typed(w) == If(w.form = "ok", <<"fill">>) \o <<"delay">>
                    \o If(w.dropdown = "ok", <<"key", "key", "delay">>)
        Year(w, y) == IF y = "unset" THEN <<>>
                      ELSE IF y = "ok" THEN <<"select", "delay">>
                      ELSE If(w.form = "ok", <<"fill">>) IN
    CASE op = "login" ->
            <<"navigate">> \o
            If(rec.goto = "ok",
               <<"delay">> \o If(rec.fill = "ok", <<"fill">>) \o <<"delay">>
               \o If(rec.fill = "ok", <<"fill">>) \o <<"delay">>
               \o If(rec.click = "ok", <<"click">>))
      [] op = "search" ->
            <<"navigate">> \o
            If(rec.goto = "ok",
               <<"delay">> \o Typed(rec) \o Typed(rec)
               \o Year(rec, rec.year_from) \o Year(rec, rec.year_to)
               \o If(rec.click = "ok", <<"click">>))
      [] op = "go_next_page" ->
            If(HasNextPage(rec.control) = "true",
               If(rec.waits.click = "ok", <<"click">>) \o <<"delay">>)
      [] op = "go_to_listing" ->
            <<"navigate">> \o If(rec.goto = "ok", <<"delay">>)
      [] OTHER -> <<>>

\* The operations called one after another on a browser, with every way
\* their waits can end.
BLogin(w) ==
    /\ last' = Done("login", w, Login(w))
    /\ UNCHANGED <<storeVars, passVars, searchVars>>

BSearch(w) ==
    /\ last' = Done("search", w, Search(w))
    /\ UNCHANGED <<storeVars, passVars, searchVars>>

BHasNextPage(c) ==
    /\ last' = Done("has_next_page", [control |-> c], HasNextPage(c))
    /\ UNCHANGED <<storeVars, passVars, searchVars>>

BGoNextPage(c, w) ==
    /\ last' = Done("go_next_page", [control |-> c, waits |-> w], GoNextPage(c, w))
    /\ UNCHANGED <<storeVars, passVars, searchVars>>

BGoToListing(w) ==
    /\ last' = Done("go_to_listing", w, GoToListing(w))
    /\ UNCHANGED <<storeVars, passVars, searchVars>>

BDelay(rate_limit, delay_ms) ==
    /\ delay_ms \in DelayDraws(rate_limit)
    /\ last' = Done("_delay", rate_limit, delay_ms)
    /\ UNCHANGED <<storeVars, passVars, searchVars>>

NextBrowser ==
    \/ \E w \in LoginWaits : BLogin(w)
    \/ \E w \in SearchWaits : BSearch(w)
    \/ \E c \in Controls : BHasNextPage(c)
    \/ \E c \in Controls, w \in NextPageWaits : BGoNextPage(c, w)
    \/ \E w \in ListingWaits : BGoToListing(w)
    \/ \E lo \in 1..2, hi \in 2..3, ms \in 0..4 :
          BDelay([min_delay_ms |-> lo, max_delay_ms |-> hi], ms)

SpecBrowser == Init /\ [][NextBrowser]_vars

\* ---------------------------------------------------------------- extractor
\* ListingExtractor (src/scraper/extractor.py) on Python strings.  Positions
\* are 0-based as in Python; a search that finds nothing yields -1.
MaxPieces == 4         \* most pieces a markup string is built from

Char(s, i) == SubSeq(s, i, i)

\* s[a:b]
Slice(s, a, b) == SubSeq(s, a + 1, Min(b, Len(s)))

StartsWith(s, p) == Len(p) <= Len(s) /\ SubSeq(s, 1, Len(p)) = p

\* s.find(sub)
Find(s, sub) ==
    LET hits == {i \in 0..(Len(s) - Len(sub)) : Slice(s, i, i + Len(sub)) = sub} IN
    IF hits = {} THEN 0 - 1 ELSE CHOOSE i \in hits : \A j \in hits : i <= j

\* s.rfind(sub)
RFind(s, sub) ==
    LET hits == {i \in 0..(Len(s) - Len(sub)) : Slice(s, i, i + Len(sub)) = sub} IN
    IF hits = {} THEN 0 - 1 ELSE CHOOSE i \in hits : \A j \in hits : i >= j

UpperAlphabet == "ABCDEFGHIJKLMNOPQRSTUVWXYZ"

\* s.lower() and s.upper()
RECURSIVE Lower(_)
Lower(s) ==
    IF s = "" THEN ""
    ELSE LET c == Char(s, 1)
             i == Find(UpperAlphabet, c) IN
         (IF i >= 0 THEN Char("abcdefghijklmnopqrstuvwxyz", i + 1) ELSE c)
         \o Lower(SubSeq(s, 2, Len(s)))

RECURSIVE Upper(_)
Upper(s) ==
    IF s = "" THEN ""
    ELSE LET c == Char(s, 1)
             i == Find("abcdefghijklmnopqrstuvwxyz", c) IN
         (IF i >= 0 THEN Char(UpperAlphabet, i + 1) ELSE c)
         \o Upper(SubSeq(s, 2, Len(s)))

Whitespace == {" ", "\n", "\t", "\r"}

\* s.strip()
RECURSIVE Strip(_)
Strip(s) ==
    IF Len(s) > 0 /\ Char(s, 1) \in Whitespace THEN Strip(SubSeq(s, 2, Len(s)))
    ELSE IF Len(s) > 0 /\ Char(s, Len(s)) \in Whitespace
    THEN Strip(SubSeq(s, 1, Len(s) - 1))
    ELSE s

\* s.split("\n") and "\n".join(lines)
RECURSIVE SplitLines(_)
SplitLines(s) ==
    LET i == Find(s, "\n") IN
    IF i < 0 THEN <<s>>
    ELSE <<Slice(s, 0, i)>> \o SplitLines(Slice(s, i + 1, Len(s)))

RECURSIVE Join(_, _)
Join(sep, parts) ==
    IF Len(parts) = 0 THEN ""
    ELSE IF Len(parts) = 1 THEN parts[1]
    ELSE parts[1] \o sep \o Join(sep, Tail(parts))

\* _truncate_html.  The strings of the model are short: the distances 1000
\* (line 37) and 2000 (line 44) are scaled to LookBack and TrimSlack, and
\* max_chars is taken from Budgets.
LookBack == 2
TrimSlack == 4
Budgets == {8, 12}

content_markers == <<"<table", "<tbody", "results", "listings", "lot-", "vehicle">>

\* The for loop of lines 33-38, from marker number k on.
RECURSIVE BestStartFrom(_, _)
BestStartFrom(html, k) ==
    IF k > Len(content_markers) THEN 0
    ELSE LET at == Find(Lower(html), content_markers[k]) IN
         IF at > 0 /\ at < Len(html) \div 2
         THEN IF at - LookBack > 0 THEN at - LookBack ELSE 0
         ELSE BestStartFrom(html, k + 1)

TruncateHtml(html, max_chars) ==
    IF Len(html) <= max_chars THEN html
    ELSE LET best_start == BestStartFrom(html, 1)
             window == Slice(html, best_start, best_start + max_chars)
             last_close == RFind(window, ">")
             truncated == IF last_close > max_chars - TrimSlack
                          THEN Slice(window, 0, last_close + 1) ELSE window
         IN truncated \o "\n<!-- content truncated -->"

\* Markup strings: concatenations of a few pieces with and without markers.
Markups ==
    LET pieces == {"ab", "<p>", "<Table", "results"} IN
    {Join("", p) : p \in UNION {[1..n -> pieces] : n \in 1..MaxPieces}}

\* _clean_json_response (lines 49-60).  The back-tick has no spelling in a
\* string of this language: in every string of the model the tilde stands
\* for it, and no input uses the tilde for anything else.
Fence == "~~~"

IsFenceLineTagged(l) == StartsWith(Strip(l), Fence \o "json")

\* l.strip().startswith(fence), the test of the filter of line 57
IsFenceLine(l) == StartsWith(Strip(l), Fence)

RECURSIVE WithoutFenceLines(_)
WithoutFenceLines(lines) ==
    IF Len(lines) = 0 THEN <<>>
    ELSE (IF IsFenceLine(Head(lines)) THEN <<>> ELSE <<Head(lines)>>)
         \o WithoutFenceLines(Tail(lines))

CleanJsonResponse(response_text) ==
    LET text == Strip(response_text) IN
    IF StartsWith(text, Fence)
    THEN Strip(Join("\n", WithoutFenceLines(SplitLines(text))))
    ELSE Strip(text)

\* json.loads (line 128), as far as the unwrapping can affect it: the text is
\* scanned once, string literals are kept as written, whitespace between
\* tokens is dropped, and a character that no JSON token can hold, a raw line
\* break inside a literal, an open literal or an empty text is a decode error.
\* Two texts with the same significant characters decode to the same value.
RECURSIVE JsonWellFormed(_, _)
JsonWellFormed(s, inString) ==
    IF s = "" THEN ~inString
    ELSE LET c == Char(s, 1)
             rest == SubSeq(s, 2, Len(s)) IN
         IF inString
         THEN IF c = "\\" THEN Len(s) >= 2 /\ JsonWellFormed(SubSeq(s, 3, Len(s)), TRUE)
              ELSE IF c = "\"" THEN JsonWellFormed(rest, FALSE)
              ELSE c # "\n" /\ JsonWellFormed(rest, TRUE)
         ELSE IF c = "\"" THEN JsonWellFormed(rest, TRUE)
              ELSE /\ \/ c \in Whitespace
                      \/ Find("{}[],:-+.0123456789eEtrufalsn", c) >= 0
                   /\ JsonWellFormed(rest, FALSE)

RECURSIVE JsonSignificant(_, _)
JsonSignificant(s, inString) ==
    IF s = "" THEN ""
    ELSE LET c == Char(s, 1)
             rest == SubSeq(s, 2, Len(s)) IN
         IF inString
         THEN IF c = "\\" THEN SubSeq(s, 1, 2) \o JsonSignificant(SubSeq(s, 3, Len(s)), TRUE)
              ELSE c \o JsonSignificant(rest, c # "\"")
         ELSE IF c \in Whitespace THEN JsonSignificant(rest, FALSE)
              ELSE c \o JsonSignificant(rest, c = "\"")

JsonDecode(s) ==
    IF JsonWellFormed(s, FALSE) /\ JsonSignificant(s, FALSE) # ""
    THEN JsonSignificant(s, FALSE) ELSE "JSONDecodeError"

\* JSON texts of one and of several lines, with blanks around them, with
\* back-ticks and escapes inside string literals.
JsonTexts ==
    {"[]", "[{\"id\": \"1\"}]", "[\n  {\"id\": \"1\"},\n  {\"id\": \"2\"}\n]",
     "{\"note\": \"~~~\"}", "  [1, 2]\n", "\"a b\"", "[\n\"~~~json\",\n\"x\"\n]",
     "\"a\\\"b\"", "[\r\n null\r\n]"}

\* What the model's reply puts around the JSON text: nothing ("none"), or a
\* fence whose opening line is given, and blank margins.
Wrapped(j, opening, before, after) ==
    IF opening = "none" THEN before \o j \o after
    ELSE before \o opening \o "\n" \o j \o "\n" \o Fence \o after

\* ---------------------------------------------------------------- schemas
\* The models of src/models/schemas.py.  A field value is written as its JSON
\* scalar text: null, an integer literal, or a string literal in double
\* quotes; Missing is a key the input does not have.
VinLength == 17
MinYear == 1900
MaxItems == 2          \* most items in one extraction response

Missing == ""

IsIntText(s) ==
    LET digits == IF StartsWith(s, "-") THEN SubSeq(s, 2, Len(s)) ELSE s IN
    /\ Len(digits) > 0
    /\ \A i \in 1..Len(digits) : Find("0123456789", Char(digits, i)) >= 0

IsStrText(s) == Len(s) >= 2 /\ Char(s, 1) = "\"" /\ Char(s, Len(s)) = "\""

\* The characters between the quotes of a string literal.
Content(s) == IF IsStrText(s) THEN SubSeq(s, 2, Len(s) - 1) ELSE s

\* int(s) for an integer literal
RECURSIVE ParseInt(_)
ParseInt(s) ==
    IF s = "" THEN 0
    ELSE IF Char(s, 1) = "-" THEN 0 - ParseInt(SubSeq(s, 2, Len(s)))
    ELSE 10 * ParseInt(SubSeq(s, 1, Len(s) - 1))
         + Find("0123456789", Char(s, Len(s)))

\* The character class [A-HJ-NPR-Z0-9] with J-N widened to I-N.
VinClassWithI(c) ==
    LET order == "0123456789" \o UpperAlphabet
        InRange(lo, hi) == /\ Find(order, c) >= Find(order, lo)
                           /\ Find(order, c) <= Find(order, hi) IN
    /\ Len(c) = 1
    /\ Find(order, c) >= 0
    /\ \/ InRange("A", "H") \/ InRange("I", "N") \/ c = "P"
       \/ InRange("R", "Z") \/ InRange("0", "9")

\* The character class [A-HJ-NPR-Z0-9] of line 81.
VinClass(c) ==
    LET order == "0123456789" \o UpperAlphabet
        InRange(lo, hi) == /\ Find(order, c) >= Find(order, lo)
                           /\ Find(order, c) <= Find(order, hi) IN
    /\ Len(c) = 1
    /\ Find(order, c) >= 0
    /\ \/ InRange("A", "H") \/ InRange("J", "N") \/ c = "P"
       \/ InRange("R", "Z") \/ InRange("0", "9")

\* CarDetail.validate_vin on a str or None.
ValidateVin(v) ==
    IF v = NULL THEN NULL
    ELSE LET u == Upper(Strip(v)) IN
         IF Len(u) # VinLength \/ ~(\A i \in 1..Len(u) : VinClass(Char(u, i)))
         THEN NULL ELSE u

\* Well-formed VINs in either case, VINs one character short or long, with
\* a forbidden letter or another character, each with and without blanks
\* around it.
VinInputs ==
    LET texts == {"1HGCM82633A004352", "1hgcm82633a004352", "1HGCM82633A00435",
                  "1HGCM82633A0043521", "1HGCM82633AI04352", "1HGCM82633AO04352",
                  "1HGCM82633AQ04352", "1hgcm82633aq04352", "1HGCM82633A-04352",
                  "1HGCM 2633A004352", "JKLMNPRSTUVWXYZ09", ""}
        blanks == {"", " ", "\n"} IN
    {NULL} \cup {b \o t \o a : t \in texts, b \in blanks, a \in blanks}

\* The accepted range of lines 19 and 54, without the year after the current one.
YearAcceptedThisYear(y, currentYear) == ~(y < MinYear \/ y > currentYear)

\* not (v < 1900 or v > datetime.now().year + 1) of lines 19 and 54
YearAccepted(y, currentYear) == ~(y < MinYear \/ y > currentYear + 1)

CurrentYears == {2025, 2026}
Years == {NULL, "1899", "1900", "1901", "2025", "2026", "2027", "2028"}

\* SearchCriteria(make=.., year_min=.., year_max=.., max_miles=..): the
\* arguments are the int or None values of the command line.  A validator
\* that raises makes the constructor raise, and no object exists.
SearchCriteriaOf(c, currentYear) ==
    LET badYear(v) == v # NULL /\ ~YearAccepted(ParseInt(v), currentYear)
        negative(v) == v # NULL /\ ParseInt(v) < 0 IN
    IF badYear(c.year_min) \/ badYear(c.year_max) \/ negative(c.max_miles)
    THEN [raised |-> TRUE, value |-> NoRec]
    ELSE [raised |-> FALSE, value |-> c]

\* An Optional[int] field: None and int are taken as they are, a str that
\* spells an integer is converted, any other str is a validation error.
IntField(v) ==
    IF v \in {Missing, NULL} THEN NULL
    ELSE IF IsIntText(v) THEN v
    ELSE IF IsStrText(v) /\ IsIntText(Content(v)) THEN ToString(ParseInt(Content(v)))
    ELSE "ValidationError"

\* A str field: only a str is taken; required fields reject None and absence.
StrField(v, required) ==
    IF v \in {Missing, NULL} THEN (IF required THEN "ValidationError" ELSE NULL)
    ELSE IF IsStrText(v) THEN v
    ELSE "ValidationError"

\* CarListing(**item), lines 31-56, for the fields id, source_site, url,
\* year, make, miles, current_bid and buy_now_price; the other Optional[str]
\* fields are validated as make is.
CarListingOf(item, currentYear) ==
    LET year == IntField(item.year)
        value == [id |-> StrField(item.id, TRUE),
                  source_site |-> StrField(item.source_site, FALSE),
                  url |-> StrField(item.url, FALSE),
                  year |-> IF year \notin {NULL, "ValidationError"}
                              /\ ~YearAccepted(ParseInt(year), currentYear)
                           THEN NULL ELSE year,
                  make |-> StrField(item.make, FALSE),
                  miles |-> IntField(item.miles),
                  current_bid |-> IntField(item.current_bid),
                  buy_now_price |-> IntField(item.buy_now_price)] IN
    IF \E f \in DOMAIN value : value[f] = "ValidationError"
    THEN [raised |-> TRUE, value |-> NoRec]
    ELSE [raised |-> FALSE, value |-> value]

\* Decoded items of a response: complete ones, ones without id or with a
\* null or numeric id, ones with ill-typed, negative or out-of-range fields.
Items ==
    LET Base(id) == [id |-> id, url |-> Missing, year |-> "2020",
                     make |-> "\"Honda\"", miles |-> "45000",
                     current_bid |-> "8500", buy_now_price |-> NULL] IN
    {Base("\"L1\""), Base("\"L2\""), Base(Missing), Base(NULL), Base("17"),
     [Base("\"L3\"") EXCEPT !.miles = "\"n/a\""],
     [Base("\"L4\"") EXCEPT !.miles = "-5", !.current_bid = "-1"],
     [Base("\"L5\"") EXCEPT !.year = "1899", !.url = "\"http://x/5\""],
     [Base("\"L6\"") EXCEPT !.miles = "\"12\"", !.buy_now_price = "-100"]}

VValidateVin(v) ==
    /\ last.op = "init"
    /\ last' = Done("validate_vin", [v |-> v], ValidateVin(v))
    /\ UNCHANGED <<storeVars, passVars, searchVars>>

VSearchCriteria(c, currentYear) ==
    /\ last.op = "init"
    /\ last' = Done("SearchCriteria", [c |-> c, currentYear |-> currentYear],
                    SearchCriteriaOf(c, currentYear))
    /\ UNCHANGED <<storeVars, passVars, searchVars>>

VCarListing(item, currentYear) ==
    /\ last.op = "init"
    /\ last' = Done("CarListing", [item |-> item, currentYear |-> currentYear],
                    CarListingOf(item, currentYear))
    /\ UNCHANGED <<storeVars, passVars, searchVars>>

NextSchemas ==
    \/ \E v \in VinInputs : VValidateVin(v)
    \/ \E a, b \in Years, m \in {NULL, "-1", "100"}, y \in CurrentYears :
          VSearchCriteria([make |-> "\"Honda\"", year_min |-> a, year_max |-> b,
                           max_miles |-> m], y)
    \/ \E i \in Items, v \in Years, y \in CurrentYears :
          VCarListing([i EXCEPT !.year = v] @@ [source_site |-> "\"copart\""], y)

SpecSchemas == Init /\ [][NextSchemas]_vars

\* extract_listings, lines 130-144: source_site is set, a url is made from
\* the id when the item has none, and the items are converted in response
\* order; an item whose conversion raises is skipped.
RECURSIVE ExtractListings(_, _)
ExtractListings(listings_data, currentYear) ==
    IF listings_data = <<>> THEN <<>>
    ELSE LET item == Head(listings_data)
             Falsy(v) == v \in {Missing, NULL, "\"\"", "0"}
             sited == [source_site |-> "\"copart\""] @@ item
             prepared ==
                 IF Falsy(item.url) /\ ~Falsy(item.id)
                 THEN [sited EXCEPT !.url = "\"https://www.copart.com/lot/"
                                            \o Content(item.id) \o "\""]
                 ELSE sited
             listing == CarListingOf(prepared, currentYear) IN
         (IF listing.raised THEN <<>> ELSE <<listing.value>>)
         \o ExtractListings(Tail(listings_data), currentYear)

\* The decoded responses: up to MaxItems items.
Responses == UNION {[1..n -> Items] : n \in 0..MaxItems}

\* The functions keep no state: each is applied once, to every input.
ETruncateHtml(html, max_chars) ==
    /\ last.op = "init"
    /\ last' = Done("_truncate_html", [html |-> html, max_chars |-> max_chars],
                    TruncateHtml(html, max_chars))
    /\ UNCHANGED <<storeVars, passVars, searchVars>>

ECleanJsonResponse(j, opening, before, after) ==
    /\ last.op = "init"
    /\ last' = Done("_clean_json_response",
                    [json |-> j, opening |-> opening,
                     response_text |-> Wrapped(j, opening, before, after)],
                    CleanJsonResponse(Wrapped(j, opening, before, after)))
    /\ UNCHANGED <<storeVars, passVars, searchVars>>

EExtractListings(listings_data, currentYear) ==
    /\ last.op = "init"
    /\ last' = Done("extract_listings",
                    [listings_data |-> listings_data, currentYear |-> currentYear],
                    ExtractListings(listings_data, currentYear))
    /\ UNCHANGED <<storeVars, passVars, searchVars>>

NextExtractor ==
    \/ \E h \in Markups, b \in Budgets : ETruncateHtml(h, b)
    \/ \E j \in JsonTexts,
          o \in {"none", Fence, Fence \o "json", Fence \o "JSON "},
          m, n \in {"", "\n", " "} :
          ECleanJsonResponse(j, o, m, n)

    \/ \E r \in Responses, y \in CurrentYears : EExtractListings(r, y)

SpecExtractor == Init /\ [][NextExtractor]_vars

\* ---------------------------------------------------------------- search
\* The command `search' (src/main.py): one run of the pipeline.
MaxPages == 2          \* largest --max-pages
MaxBatch == 2          \* most records in one call of upsert_listings

passOnly == <<dpc, todo, idx, fetched>>

\* Variant: upsert_listing sends a record without vin attribute with a null
\* vin, so that only a record the database rejects raises.
RECURSIVE UpsertListingsFromVinOptional(_, _, _, _, _)
UpsertListingsFromVinOptional(rows, batch, i, t, faultAt) ==
    IF i > Len(batch)
    THEN [rows |-> rows, now |-> t, raised |-> FALSE]
    ELSE IF i = faultAt
    THEN [rows |-> rows, now |-> t, raised |-> TRUE]
    ELSE LET r == [f \in DOMAIN batch[i] \cup {"vin"} |->
                      IF HasAttr(batch[i], f) THEN batch[i][f] ELSE NULL]
         IN UpsertListingsFromVinOptional(UpsertListingRows(rows, r, t + 1),
                                          batch, i + 1, t + 1, faultAt)

\* Storage.upsert_listings: upsert_listing on the records in order; the first
\* call that raises ends the loop.  A call raises for a record without vin
\* attribute, and for record number faultAt, which the database rejects
\* (0: it rejects none).
RECURSIVE UpsertListingsFrom(_, _, _, _, _)
UpsertListingsFrom(rows, batch, i, t, faultAt) ==
    IF i > Len(batch)
    THEN [rows |-> rows, now |-> t, raised |-> FALSE]
    ELSE IF ~HasAttr(batch[i], "vin") \/ i = faultAt
    THEN [rows |-> rows, now |-> t, raised |-> TRUE]
    ELSE UpsertListingsFrom(UpsertListingRows(rows, batch[i], t + 1),
                            batch, i + 1, t + 1, faultAt)

UpsertListingsRun(rows, batch, t, faultAt) ==
    UpsertListingsFrom(rows, batch, 1, t, faultAt)

\* extract_listings: the CarListing records of a page; source_site is forced
\* to "copart".
LotId(i) == "L" \o ToString(i)

PageBatch(n) == [i \in 1..n |-> CarListing("copart", LotId(i), "x", "y")]

\* UPDATE scraper.runs SET ... WHERE id = run_id
CompleteRun(listings_found, details_fetched, errs, status) ==
    [status |-> status, listings_found |-> listings_found,
     details_fetched |-> details_fetched, errors |-> errs]

\* Variant: a session failure is written as a completed run without errors.
SessionFailureRunCompleted == CompleteRun(0, 0, 0, "completed")

\* complete_run(run_id, 0, 0, 1, "failed") of lines 139 and 151.
SessionFailureRun == CompleteRun(0, 0, 1, "failed")

\* What the set-up of a search run is given: the required environment
\* variables that are missing, whether the site's configuration file exists,
\* the criteria of the command line, the current year, and how
\* storage.connect ends.
SetupInputs ==
    [missing : {{}, {"DATABASE_URL"}, {"COPART_USERNAME", "COPART_PASSWORD"}},
     site_config : {"found", "missing"},
     criteria : [make : {"\"Honda\""}, year_min : {NULL, "1899", "2020"},
                 year_max : {NULL}, max_miles : {NULL, "-1"}],
     currentYear : CurrentYears,
     connect : {"ok", "raised"}]

\* The set-up with SearchCriteria built inside the try block, after
\* storage.connect.
SetupOutcomeCriteriaLate(s) ==
    IF s.missing # {} \/ s.site_config = "missing" THEN "config_error"
    ELSE IF s.connect = "raised" THEN "connect_raised"
    ELSE "connected"

\* get_settings, load_site_config and SearchCriteria(...) (lines 97-108)
\* raise before the try block; storage.connect (line 117) is inside it.
SetupOutcome(s) ==
    IF s.missing # {} \/ s.site_config = "missing" THEN "config_error"
    ELSE IF SearchCriteriaOf(s.criteria, s.currentYear).raised THEN "config_error"
    ELSE IF s.connect = "raised" THEN "connect_raised"
    ELSE "connected"

\* get_settings .. storage.connect (lines 97-117).  A missing setting or a
\* rejected criterion raises before the try block.
SSetup(s, mp) ==
    LET outcome == SetupOutcome(s) IN
    /\ spc = "idle"
    /\ max_pages' = mp
    /\ spc' = CASE outcome = "config_error" -> "done"
                [] outcome = "connect_raised" -> "except"
                [] OTHER -> "start_run"
    /\ pool' = IF outcome = "connected" THEN "open" ELSE pool
    /\ events' = IF outcome = "connect_raised" THEN events \cup {"raised"}
                 ELSE events
    /\ last' = Done("search.setup", s, outcome)
    /\ UNCHANGED <<storeVars, passOnly, errors, browser, run, completes, bound,
                   page, total_listings, found, extracted>>

\* run_id = await storage.start_run(site, criteria) (line 120).
SStartRun(outcome) ==
    /\ spc = "start_run"
    /\ outcome \in {"raised", "started"}
    /\ IF outcome = "started"
       THEN /\ run' = [status |-> "running", listings_found |-> 0,
                       details_fetched |-> 0, errors |-> 0]
            /\ bound' = bound \cup {"run_id"}
            /\ spc' = "browser"
            /\ UNCHANGED events
       ELSE /\ spc' = "except"
            /\ events' = events \cup {"raised"}
            /\ UNCHANGED <<run, bound>>
    /\ last' = Done("search.start_run", NoRec, outcome)
    /\ UNCHANGED <<storeVars, passVars, completes, max_pages, page,
                   total_listings, found, extracted>>

\* await browser.start(headless) (line 128).
SBrowserStart(outcome) ==
    /\ spc = "browser"
    /\ outcome \in {"raised", "started"}
    /\ browser' = IF outcome = "started" THEN "started" ELSE browser
    /\ spc' = IF outcome = "started" THEN "login" ELSE "except"
    /\ events' = IF outcome = "raised" THEN events \cup {"raised"} ELSE events
    /\ last' = Done("search.browser_start", NoRec, outcome)
    /\ UNCHANGED <<storeVars, passOnly, errors, pool, run, completes, bound,
                   max_pages, page, total_listings, found, extracted>>

\* Variant: the result of login is not tested.
LoginOutcomeUnchecked(w, cookies) ==
    CASE Login(w) = "raised" -> "raised"
      [] cookies = "raised" -> "raised"
      [] OTHER -> "logged_in"

\* login_success = await browser.login(..); if not login_success: .. return;
\* await browser.save_cookies() (lines 132-143).
LoginOutcome(w, cookies) ==
    CASE Login(w) = "raised" -> "raised"
      [] Login(w) = "false" -> "login_failed"
      [] cookies = "raised" -> "raised"
      [] OTHER -> "logged_in"

\* The login step of the run.  The step records what login returned and how
\* save_cookies, when it was called, ended.
SLogin(w, cookies) ==
    /\ spc = "login"
    /\ cookies \in {"saved", "raised"}
    /\ LET outcome == LoginOutcome(w, cookies) IN
       /\ spc' = CASE outcome = "raised" -> "except"
                   [] outcome = "login_failed" -> "report_failure"
                   [] OTHER -> "search"
       /\ events' = IF outcome = "logged_in" THEN events
                    ELSE events \cup {outcome}
       /\ last' = Done("search.login",
                       [login |-> Login(w),
                        save_cookies |-> IF outcome = "logged_in"
                                            \/ (outcome = "raised"
                                                /\ Login(w) # "raised")
                                         THEN cookies ELSE "not_called"],
                       outcome)
    /\ UNCHANGED <<storeVars, passVars, run, completes, bound, max_pages, page,
                   total_listings, found, extracted>>

\* search_success = await browser.search(criteria); on success the counters
\* of the page loop are initialised (lines 147-157) and the while condition
\* is tested.
SSearch(w) ==
    /\ spc = "search"
    /\ LET outcome == CASE Search(w) = "raised" -> "raised"
                        [] Search(w) = "false" -> "search_failed"
                        [] OTHER -> "searched" IN
       /\ last' = Done("search.search", NoRec, outcome)
       /\ IF outcome = "searched"
          THEN /\ bound' = bound \cup {"total_listings", "errors", "page"}
               /\ total_listings' = 0
               /\ errors' = 0
               /\ page' = 1
               /\ spc' = IF 1 <= max_pages THEN "extract" ELSE "complete"
               /\ UNCHANGED events
          ELSE /\ spc' = IF outcome = "raised" THEN "except" ELSE "report_failure"
               /\ events' = events \cup {outcome}
               /\ UNCHANGED <<bound, total_listings, errors, page>>
    /\ UNCHANGED <<storeVars, passOnly, pool, browser, run, completes,
                   max_pages, found, extracted>>

\* await storage.complete_run(run_id, 0, 0, 1, "failed"); return
\* (lines 137-140 and 149-152).
SReportFailure ==
    /\ spc = "report_failure"
    /\ run' = SessionFailureRun
    /\ completes' = completes + 1
    /\ spc' = "finally"
    /\ last' = Done("search.complete_run", NoRec, "failed")
    /\ UNCHANGED <<storeVars, passVars, bound, max_pages, page, total_listings,
                   found, extracted, events>>

\* html = get_page_html(); listings = extract_listings(html); break when the
\* list is empty (lines 165-175).  extract_listings returns [] when the answer
\* is not JSON and when the API call fails.
SExtract(outcome, n) ==
    /\ spc = "extract"
    /\ outcome \in {"html_raised", "json_error", "api_error", "listings"}
    /\ outcome # "listings" => n = 0
    /\ found' = IF outcome = "html_raised" THEN found ELSE PageBatch(n)
    /\ extracted' = IF outcome = "html_raised" THEN extracted
                    ELSE extracted \o found'
    /\ spc' = CASE outcome = "html_raised" -> "except"
                [] n = 0 -> "complete"
                [] OTHER -> "save"
    /\ events' = events \cup
                 CASE outcome = "html_raised" -> {"extract", "raised"}
                   [] outcome \in {"json_error", "api_error"} ->
                          {"extract", "undecodable"}
                   [] OTHER -> {"extract"}
    /\ last' = Done("search.extract", [listings |-> n], outcome)
    /\ UNCHANGED <<storeVars, passVars, run, completes, bound, max_pages, page,
                   total_listings>>

\* try: upsert_listings(listings); total_listings += len(listings)
\* except Exception: errors += 1 (lines 179-185).
SSave(faultAt) ==
    /\ spc = "save"
    /\ faultAt \in 0..Len(found)
    /\ LET res == UpsertListingsRun(listings, found, now, faultAt) IN
       /\ listings' = res.rows
       /\ now' = res.now
       /\ total_listings' = IF res.raised THEN total_listings
                            ELSE total_listings + Len(found)
       /\ errors' = IF res.raised THEN errors + 1 ELSE errors
       /\ events' = events \cup {"save"}
                    \cup (IF faultAt # 0 THEN {"db_fault"} ELSE {})
       /\ last' = Done("search.save", [listings |-> Len(found)],
                       IF res.raised THEN "raised" ELSE "saved")
    /\ spc' = "advance"
    /\ UNCHANGED <<details, inflight, queryResult, passOnly, pool, browser,
                   run, completes, bound, max_pages, page, found, extracted>>

\* Variant: the page number is not compared with max_pages.
AdvanceOutcomeUnbounded(c, w) ==
    CASE HasNextPage(c) = "false" -> "no_next_page"
      [] GoNextPage(c, w) = "false" -> "navigation_failed"
      [] OTHER -> "next_page"

\* if page < max_pages: has_next_page / go_next_page, break when either is
\* false; else: page += 1 (lines 188-199).
AdvanceOutcome(c, w) ==
    CASE page >= max_pages -> "last_page"
      [] HasNextPage(c) = "false" -> "no_next_page"
      [] GoNextPage(c, w) = "false" -> "navigation_failed"
      [] OTHER -> "next_page"

\* The next-page step and the while condition (lines 188-199, 159).
SAdvance(c, w) ==
    /\ spc = "advance"
    /\ LET outcome == AdvanceOutcome(c, w) IN
       /\ page' = IF outcome \in {"last_page", "next_page"} THEN page + 1
                  ELSE page
       /\ spc' = IF outcome = "next_page" THEN "extract" ELSE "complete"
       /\ events' = events \cup {"advance"}
       /\ last' = Done("search.advance", NoRec, outcome)
    /\ UNCHANGED <<storeVars, passVars, run, completes, bound, max_pages,
                   total_listings, found, extracted>>

\* await storage.complete_run(run_id, total_listings, 0, errors, "completed")
\* (lines 202-208).
SComplete ==
    /\ spc = "complete"
    /\ run' = CompleteRun(total_listings, 0, errors, "completed")
    /\ completes' = completes + 1
    /\ spc' = "summary"
    /\ last' = Done("search.complete_run", NoRec, "completed")
    /\ UNCHANGED <<storeVars, passVars, bound, max_pages, page, total_listings,
                   found, extracted, events>>

\* The summary is printed (lines 210-217), inside the try block: a print
\* that raises (standard output closed by its reader) reaches the handler of
\* Exception.
SSummary(outcome) ==
    /\ spc = "summary"
    /\ outcome \in {"printed", "raised"}
    /\ spc' = IF outcome = "printed" THEN "finally" ELSE "except"
    /\ events' = IF outcome = "raised" THEN events \cup {"raised"} ELSE events
    /\ last' = Done("search.summary", NoRec, outcome)
    /\ UNCHANGED <<storeVars, passVars, run, completes, bound, max_pages, page,
                   total_listings, found, extracted>>

\* Ctrl-C while the try block runs.  KeyboardInterrupt is raised inside the
\* coroutine, or asyncio.run (line 230) turns the signal into a cancellation
\* of the task: CancelledError is neither a KeyboardInterrupt nor an
\* Exception, so only the finally block runs.  A cancellation takes effect at
\* an await, the summary has none.
SInterrupt(delivery) ==
    /\ spc \in {"start_run", "browser", "login", "search", "report_failure",
                "extract", "save", "advance", "complete", "summary"}
    /\ delivery \in {"keyboard_interrupt", "cancelled"}
    /\ spc = "summary" => delivery = "keyboard_interrupt"
    /\ spc' = IF delivery = "keyboard_interrupt" THEN "interrupt" ELSE "finally"
    /\ events' = events \cup {"interrupted"}
    /\ last' = Done("search.interrupt", NoRec, delivery)
    /\ UNCHANGED <<storeVars, passVars, run, completes, bound, max_pages, page,
                   total_listings, found, extracted>>

\* except KeyboardInterrupt: complete_run(run_id, total_listings, 0, errors,
\* "interrupted"); except Exception: complete_run(run_id, total_listings, 0,
\* errors + 1, "failed"); raise (lines 219-225).  Reading a local that is not
\* bound yet raises UnboundLocalError before the call is made.
SHandler ==
    /\ spc \in {"interrupt", "except"}
    /\ IF {"run_id", "total_listings", "errors"} \subseteq bound
       THEN /\ run' = IF spc = "interrupt"
                      THEN CompleteRun(total_listings, 0, errors, "interrupted")
                      ELSE CompleteRun(total_listings, 0, errors + 1, "failed")
            /\ completes' = completes + 1
            /\ last' = Done("search.complete_run", NoRec,
                            IF spc = "interrupt" THEN "interrupted" ELSE "failed")
       ELSE /\ UNCHANGED <<run, completes>>
            /\ last' = Done("search.handler", NoRec, "unbound_local")
    /\ spc' = "finally"
    /\ UNCHANGED <<storeVars, passVars, bound, max_pages, page, total_listings,
                   found, extracted, events>>

\* finally: browser.close() then storage.close() (lines 226-228).  close()
\* of a started browser may raise, and then storage.close() is not reached.
SRelease(outcome) ==
    /\ spc = "finally"
    /\ outcome \in {"released", "browser_close_raised"}
    /\ outcome = "browser_close_raised" => browser = "started"
    /\ spc' = "done"
    /\ browser' = IF browser = "started" /\ outcome = "released"
                  THEN "closed" ELSE browser
    /\ pool' = IF pool = "open" /\ outcome = "released" THEN "closed" ELSE pool
    /\ last' = Done("search.release", NoRec, outcome)
    /\ UNCHANGED <<storeVars, passOnly, errors, run, completes, bound,
                   max_pages, page, total_listings, found, extracted, events>>

NextSearch ==
    \/ \E s \in SetupInputs, mp \in 0..MaxPages : SSetup(s, mp)
    \/ \E o \in {"raised", "started"} : SStartRun(o)
    \/ \E o \in {"raised", "started"} : SBrowserStart(o)
    \/ \E w \in LoginWaits, k \in {"saved", "raised"} : SLogin(w, k)
    \/ \E w \in SearchWaits : SSearch(w)
    \/ SReportFailure
    \/ \E o \in {"html_raised", "json_error", "api_error", "listings"},
          n \in 0..MaxBatch : SExtract(o, n)
    \/ \E k \in 0..MaxBatch : SSave(k)
    \/ \E c \in Controls, w \in NextPageWaits : SAdvance(c, w)
    \/ SComplete
    \/ \E o \in {"printed", "raised"} : SSummary(o)
    \/ \E d \in {"keyboard_interrupt", "cancelled"} : SInterrupt(d)
    \/ SHandler
    \/ \E o \in {"released", "browser_close_raised"} : SRelease(o)

SpecSearch == Init /\ [][NextSearch]_vars

\* The coroutine of a run is the only task of its event loop (asyncio.run,
\* line 230): while a step of the run is possible, one is taken.
SpecSearchFair == SpecSearch /\ WF_vars(NextSearch)

\* ---------------------------------------------------------------- upsert_listings
\* Storage.upsert_listings called with batches of records: a CarListing, and
\* CarDetail records (a CarDetail is a CarListing) of two keys.
BatchRecords ==
    {CarListing("copart", "L1", "x", "y"),
     CarDetail("copart", "L1", "V1", "x", NULL),
     CarDetail("iaai", "L1", "V2", "y", "x")}

Batches == UNION {[1..n -> BatchRecords] : n \in 1..MaxBatch}

UpsertListings(batch, faultAt) ==
    /\ now + Len(batch) <= MaxClock
    /\ faultAt \in 0..Len(batch)
    /\ LET res == UpsertListingsRun(listings, batch, now, faultAt) IN
       /\ listings' = res.rows
       /\ now' = res.now
       /\ last' = Done("upsert_listings",
                       [batch |-> batch, faultAt |-> faultAt],
                       IF res.raised THEN "raised" ELSE "returned")
    /\ queryResult' = <<>>
    /\ UNCHANGED <<details, inflight, passVars, searchVars>>

NextBatch ==
    \E b \in Batches, k \in 0..MaxBatch : UpsertListings(b, k)

SpecBatch == Init /\ [][NextBatch]_vars

\* ---------------------------------------------------------------- properties
KeyOf(x) == <<x.source_site, x.id>>

DropColumn(rows, col) == {[f \in DOMAIN x \ {col} |-> x[f]] : x \in rows}

\* The step just taken (in an action formula) is a statement on the listing
\* row of last'.rec.
ListingStatement ==
    \/ last'.op = "upsert_listing" /\ last'.outcome \in {"inserted", "merged"}
    \/ last'.op = "upsert_detail_listing"
    \/ last'.op = "upsert_detail" /\ last'.outcome = "skipped"

\* The step just taken is the statement on scraper.details of an upsert_detail.
DetailStatement ==
    /\ last'.op = "upsert_detail"
    /\ last'.outcome \in {"inserted", "merged"}

\* C1, as stated: upsert_listing(r) right after upsert_listing(r) leaves the
\* listings relation exactly as the first call left it.
C1_ExactlyIdempotent ==
    [][(last'.op = "upsert_listing" /\ last'.again) => listings' = listings]_vars

\* C1, amended: upsert_listing(r) right after upsert_listing(r) leaves every
\* column of every listing row as the first call left it, except updated_at.
C1_IdempotentUpToWatermark ==
    [][(last'.op = "upsert_listing" /\ last'.again) =>
          DropColumn(listings', "updated_at") = DropColumn(listings, "updated_at")]_vars

C1_Witness ==
    /\ last.op = "upsert_listing" /\ last.again /\ last.outcome = "merged"
    /\ \E x \in listings : KeyOf(x) = KeyOf(last.rec) /\ x.updated_at = now
                            /\ x.scraped_at = now - 1

\* C2 (coalesce law): a column of a stored listing or detail row that holds a
\* value keeps that value (so stays non-null) through a statement on the same
\* key whose record carries NULL for the column.
C2_CoalesceLaw ==
    [][/\ ListingStatement =>
            \A x \in listings : KeyOf(x) = KeyOf(last'.rec) =>
                \E y \in listings' :
                    /\ KeyOf(y) = KeyOf(x)
                    /\ \A f \in ListingFields :
                          (last'.rec[f] = NULL /\ x[f] # NULL) => y[f] = x[f]
       /\ DetailStatement =>
            \A x \in details : x.vin = last'.rec.vin =>
                \E y \in details' :
                    /\ y.vin = x.vin
                    /\ \A f \in DetailFields :
                          (last'.rec[f] = NULL /\ x[f] # NULL) => y[f] = x[f]]_vars

C2_Witness ==
    /\ last.op = "upsert_detail" /\ last.outcome = "merged"
    /\ \E y \in details : y.vin = last.rec.vin /\ last.rec.engine # NULL
                           /\ last.rec.transmission = NULL
                           /\ y.transmission # NULL
    /\ \E x \in listings : KeyOf(x) = KeyOf(last.rec) /\ last.rec.current_bid = NULL
                            /\ x.current_bid # NULL

\* C3, as stated: a merge by upsert_listing(r) is a coalesce on every listing
\* column: r's value where r has one, the stored value otherwise.
C3_CoalesceEveryColumn ==
    [][(last'.op = "upsert_listing" /\ last'.outcome = "merged") =>
          \A x \in listings : KeyOf(x) = KeyOf(last'.rec) =>
              \E y \in listings' :
                  /\ KeyOf(y) = KeyOf(x)
                  /\ \A f \in ListingFields :
                        y[f] = IF last'.rec[f] # NULL THEN last'.rec[f] ELSE x[f]]_vars

\* C3, amended: a merge by upsert_listing(r) is a coalesce on vin, url,
\* current_bid, buy_now_price and sale_date; every other listing column keeps
\* the stored value whatever r carries.
C3_CoalesceVolatileColumns ==
    [][(last'.op = "upsert_listing" /\ last'.outcome = "merged") =>
          \A x \in listings : KeyOf(x) = KeyOf(last'.rec) =>
              \E y \in listings' :
                  /\ KeyOf(y) = KeyOf(x)
                  /\ \A f \in ListingFields :
                        y[f] = IF /\ f \in {"vin", "url", "current_bid",
                                            "buy_now_price", "sale_date"}
                                  /\ last'.rec[f] # NULL
                               THEN last'.rec[f] ELSE x[f]]_vars

C3_Witness ==
    /\ last.op = "upsert_listing" /\ last.outcome = "merged"
    /\ \E x \in listings :
          /\ KeyOf(x) = KeyOf(last.rec)
          /\ x.url = last.rec.url /\ x.url # NULL
          /\ last.rec.year # NULL /\ x.year # last.rec.year
          /\ last.rec.sale_date = NULL /\ x.sale_date # NULL

\* C4: upsert_listing(r) with a CarListing r (no vin attribute) whose key is
\* not stored succeeds and creates exactly one row with that key holding r's
\* fields.
C4_CarListingInserted ==
    [][(/\ last'.op = "upsert_listing"
        /\ ~HasAttr(last'.rec, "vin")
        /\ \A x \in listings : KeyOf(x) # KeyOf(last'.rec)) =>
          /\ last'.outcome = "inserted"
          /\ Cardinality({y \in listings' : KeyOf(y) = KeyOf(last'.rec)}) = 1
          /\ \A y \in listings' : KeyOf(y) = KeyOf(last'.rec) =>
                \A f \in ListingFields \ {"vin"} : y[f] = last'.rec[f]]_vars

\* C5: no step of an upsert_detail call whose record has a null VIN changes
\* the details relation.
C5_NullVinKeepsDetails ==
    [][(/\ last'.op \in {"upsert_detail", "upsert_detail_listing"}
        /\ last'.rec.vin = NULL) => details' = details]_vars

C5_Witness ==
    /\ last.op = "upsert_detail" /\ last.outcome = "skipped"
    /\ last.rec.vin = NULL
    /\ details # {}

\* C6, as stated: upsert_detail(d) with a null VIN leaves the listings
\* relation unchanged.
C6_NullVinKeepsListings ==
    [][(last'.op = "upsert_detail" /\ last'.rec.vin = NULL) =>
          listings' = listings]_vars

\* C6, amended: upsert_detail(d) with a null VIN changes nothing in the store
\* but the listing row keyed (d.source_site, d.id), which exists afterwards
\* (inserted, or merged as by upsert_listing(d)); the other listing rows and
\* the details relation are unchanged.
C6_NullVinTouchesOwnListingOnly ==
    [][(last'.op = "upsert_detail" /\ last'.rec.vin = NULL) =>
          /\ {y \in listings' : KeyOf(y) # KeyOf(last'.rec)}
                = {x \in listings : KeyOf(x) # KeyOf(last'.rec)}
          /\ Cardinality({y \in listings' : KeyOf(y) = KeyOf(last'.rec)}) = 1
          /\ details' = details]_vars

C6_Witness ==
    /\ last.op = "upsert_detail" /\ last.outcome = "skipped"
    /\ \E x, y \in listings :
          /\ KeyOf(x) = KeyOf(last.rec) /\ x.updated_at = now
          /\ KeyOf(y) # KeyOf(x) /\ y.id = x.id

\* C7: in the detail pass a record whose upsert_detail call took the null-VIN
\* skip is not counted as a fetched detail.  (Storage keeps no skip counter:
\* the skip writes a log line only, and `fetched' and `errors' are the only
\* counters of the pass.)
C7_SkippedNotCountedFetched ==
    [][(last'.op = "fetch_detail" /\ last'.outcome = "skipped") =>
          fetched' = fetched]_vars

\* C8: the list get_listings_without_details(limit) returns has at most limit
\* entries, each the listing row of a key whose VIN is non-null and is the VIN
\* of no detail row.
C8_QueryResult ==
    (last.op = "get_listings_without_details" /\ last.outcome = "returned") =>
        /\ Len(queryResult) <= last.rec.limit
        /\ \A i \in 1..Len(queryResult) :
              \E x \in listings :
                  /\ KeyOf(x) = KeyOf(queryResult[i])
                  /\ x.vin # NULL
                  /\ \A d \in details : d.vin # x.vin

C8_Witness ==
    /\ last.op = "get_listings_without_details" /\ last.outcome = "returned"
    /\ Len(queryResult) = 1 /\ last.rec.limit = 1
    /\ \E x \in listings : x.vin # NULL /\ \E d \in details : d.vin = x.vin
    /\ \E x \in listings : x.vin # NULL /\ (\A d \in details : d.vin # x.vin)
                            /\ KeyOf(x) # KeyOf(queryResult[1])

\* C9: the details relation never holds two rows with one VIN, and an
\* upsert_detail whose VIN is already stored (under whatever source_site and
\* id) adds no row: it coalesces into the stored row.
C9_OneDetailPerVin ==
    /\ [](\A x, y \in details : x.vin = y.vin => x = y)
    /\ [][DetailStatement =>
            \A x \in details : x.vin = last'.rec.vin =>
                /\ Cardinality(details') = Cardinality(details)
                /\ \E y \in details' :
                      /\ y.vin = x.vin
                      /\ \A f \in DetailFields :
                            y[f] = IF last'.rec[f] # NULL
                                   THEN last'.rec[f] ELSE x[f]]_vars

C9_Witness ==
    /\ last.op = "upsert_detail" /\ last.outcome = "merged"
    /\ Cardinality({d \in details : d.vin = last.rec.vin}) = 1
    /\ \E x, y \in listings : /\ x.vin = last.rec.vin /\ y.vin = last.rec.vin
                              /\ x.source_site # y.source_site

\* C10, as stated: when upsert_detail(d) writes the detail row, a listing row
\* with key (d.source_site, d.id) exists and carries d.vin.
C10_ListingCarriesVin ==
    [][DetailStatement =>
          \E x \in listings : KeyOf(x) = KeyOf(last'.rec) /\ x.vin = last'.rec.vin]_vars

\* C10, amended: when upsert_detail(d) writes the detail row, the call has
\* written the listing row before: a listing row with key (d.source_site, d.id)
\* exists and carries a non-null VIN, which is d.vin unless a later statement
\* of another call on the same key has replaced it.
C10_ListingWrittenFirst ==
    [][DetailStatement =>
          \E x \in listings :
              /\ KeyOf(x) = KeyOf(last'.rec)
              /\ x.vin # NULL
              /\ \A c \in inflight \ inflight' : c.intact => x.vin = last'.rec.vin]_vars

C10_Witness ==
    /\ last.op = "upsert_detail" /\ last.outcome = "inserted"
    /\ \E x \in listings : KeyOf(x) = KeyOf(last.rec) /\ x.vin = last.rec.vin
                            /\ x.updated_at = now - 1
    /\ \E d \in details : d.vin = last.rec.vin /\ d.scraped_at = now

\* C11: when the search pipeline has exited, the run start_run created has
\* received exactly one complete_run write and its status is completed,
\* failed or interrupted, never running -- on every exit path, a fault raised
\* by browser start, login, search, extraction or pagination included.
C11_OneTerminalWrite ==
    (spc = "done" /\ run # NoRun) =>
        /\ completes = 1
        /\ run.status \in {"completed", "failed", "interrupted"}

\* C12: an interrupt arriving after start_run produces exactly one
\* complete_run write, with status interrupted, and complete_run writes
\* happen before the browser and the connection pool are released.
C12_InterruptWritesInterrupted ==
    /\ []((spc = "done" /\ run # NoRun /\ "interrupted" \in events) =>
             (completes = 1 /\ run.status = "interrupted"))
    /\ [][completes' # completes =>
             (pool' = "open" /\ browser' # "closed" /\ spc' # "done")]_vars

\* C13: when the search pipeline or the detail pass has exited, the
\* connection pool is not left open and the browser is not left started,
\* whatever the exit path, a failing browser.close() included.
C13_ResourcesReleased ==
    (spc = "done" \/ dpc = "done") => (pool # "open" /\ browser # "started")

\* C14: once login or search has reported failure, no page is extracted, no
\* listing is upserted and no pagination step is made in the run, and the
\* pipeline (unless interrupted before its complete_run call) exits with the
\* run written once, as failed with errors = 1 and no listings.
C14_SessionFailureFailsRun ==
    ({"login_failed", "search_failed"} \cap events # {}) =>
        /\ events \cap {"extract", "save", "advance"} = {}
        /\ extracted = <<>>
        /\ spc \notin {"extract", "save", "advance", "complete", "summary"}
        /\ (spc = "done" /\ "interrupted" \notin events) =>
              /\ completes = 1
              /\ run = [status |-> "failed", listings_found |-> 0,
                        details_fetched |-> 0, errors |-> 1]

C14_Witness ==
    /\ spc = "done"
    /\ "search_failed" \in events
    /\ "interrupted" \notin events
    /\ run.status = "failed" /\ run.errors = 1
    /\ completes = 1
    /\ browser = "closed" /\ pool = "closed"

\* C15: a page whose model response cannot be JSON-decoded is skipped and
\* counted: errors increases by one and the run goes on to the next-page
\* step instead of ending pagination.
C15_UndecodablePageCounted ==
    [][(last'.op = "search.extract" /\ last'.outcome = "json_error") =>
          (errors' = errors + 1 /\ spc' = "advance")]_vars

\* C16: a run in which login and search succeed, every page extracts to valid
\* records and nothing fails or interrupts ends pagination at the first page
\* without listings, and exits with the run written as completed, errors = 0
\* and listings_found the number of listings extracted, each of them stored.
C16_CleanRunStoresAll ==
    /\ []((/\ spc = "done"
           /\ "total_listings" \in bound
           /\ events \cap {"raised", "interrupted", "undecodable", "db_fault"} = {}) =>
             /\ run.status = "completed"
             /\ run.errors = 0
             /\ run.listings_found = Len(extracted)
             /\ \A i \in 1..Len(extracted) :
                   \E y \in listings : KeyOf(y) = KeyOf(extracted[i]))
    /\ [][(last'.op = "search.extract" /\ last'.outcome = "listings"
              /\ last'.rec.listings = 0) => spc' = "complete"]_vars

\* C17: when a record of a batch passed to upsert_listings fails, every other
\* record of the batch that is valid (upsert_listing accepts it on its own) is
\* still persisted by the call.
C17_BatchSurvivesRecordFailure ==
    [][(last'.op = "upsert_listings" /\ last'.outcome = "raised") =>
          \A i \in 1..Len(last'.rec.batch) :
              (HasAttr(last'.rec.batch[i], "vin") /\ i # last'.rec.faultAt) =>
                  \E y \in listings' :
                      /\ KeyOf(y) = KeyOf(last'.rec.batch[i])
                      /\ y.updated_at > now]_vars

\* Some wait of the browser operation recorded in `last' has expired.
WaitExpired ==
    LET w == IF last.op = "go_next_page" THEN last.rec.waits ELSE last.rec IN
    \E f \in DOMAIN w : w[f] = "timeout"

\* C18: when a wait inside login, search, go_next_page or go_to_listing
\* expires (initial navigation, element wait, settle wait), the operation
\* returns a failure value and raises nothing to its caller.
C18_WaitExpiryReturnsFailure ==
    (last.op \in {"login", "search", "go_next_page", "go_to_listing"}
        /\ WaitExpired) => last.outcome \in {"false", "none"}

\* C19: go_next_page returns true only if has_next_page was true, the click
\* on the next-page control succeeded and the page settled; it returns false
\* in every other case.
C19_GoNextPageResult ==
    last.op = "go_next_page" =>
        (last.outcome = "true" <=>
            /\ HasNextPage(last.rec.control) = "true"
            /\ last.rec.waits.click = "ok"
            /\ last.rec.waits.settle = "ok")

\* C20: has_next_page returns true exactly when the next-page control exists,
\* carries no disabled attribute (whatever its value, "" included) and its
\* class does not contain "disabled"; otherwise it returns false.
C20_HasNextPageExact ==
    last.op = "has_next_page" =>
        LET c == last.rec.control IN
        /\ last.outcome \in {"true", "false"}
        /\ last.outcome = "true" <=>
              /\ c.lookup = "element"
              /\ c.disabled = NULL
              /\ c.class = NULL \/ ~Contains(c.class, "disabled")

\* C23: markup longer than the budget is windowed to at most budget
\* characters of the markup, ending exactly at the ">" of a tag; markup not
\* longer than the budget is returned unchanged.
C23_WindowWithinBudget ==
    last.op = "_truncate_html" =>
        LET html == last.rec.html
            budget == last.rec.max_chars
            out == last.outcome IN
        IF Len(html) <= budget THEN out = html
        ELSE /\ Len(out) <= budget
             /\ Len(out) > 0
             /\ Char(out, Len(out)) = ">"
             /\ Find(html, out) >= 0

\* The earliest position in the first half of the markup at which any of the
\* markers occurs, or -1.
EarliestMarker(html) ==
    LET hits == {i \in 0..(Len(html) - 1) :
                    /\ i < Len(html) \div 2
                    /\ \E k \in 1..Len(content_markers) :
                          StartsWith(Slice(Lower(html), i, Len(html)),
                                     content_markers[k])} IN
    IF hits = {} THEN 0 - 1 ELSE CHOOSE i \in hits : \A j \in hits : i <= j

\* C24: for markup longer than the budget the window starts LookBack
\* characters (clamped at 0) before the earliest position in the first half
\* of the markup at which any marker occurs, and at 0 when there is none.
C24_WindowStartsAtEarliestMarker ==
    (last.op = "_truncate_html" /\ Len(last.rec.html) > last.rec.max_chars) =>
        LET e == EarliestMarker(last.rec.html)
            start == IF e - LookBack > 0 THEN e - LookBack ELSE 0 IN
        /\ BestStartFrom(last.rec.html, 1) = start
        /\ StartsWith(last.outcome,
                      Slice(last.rec.html, start, start + 1))

\* C25: unwrapping a JSON text wrapped in a code fence (opening fence line
\* with or without a language tag, closing fence line) yields text that
\* decodes to the same value as the JSON text, and so does unwrapping the
\* unfenced text.
C25_UnwrapKeepsValue ==
    last.op = "_clean_json_response" =>
        /\ JsonDecode(last.rec.json) # "JSONDecodeError"
        /\ JsonDecode(last.outcome) = JsonDecode(last.rec.json)

C25_Witness ==
    /\ last.op = "_clean_json_response"
    /\ last.rec.opening = Fence \o "json"
    /\ Len(SplitLines(last.rec.json)) > 1
    /\ last.outcome # last.rec.response_text
    /\ JsonDecode(last.rec.response_text) = "JSONDecodeError"
    /\ JsonDecode(last.outcome) = JsonDecode(last.rec.json)

\* A VIN in the sense of the claims: 17 characters, each a digit or a
\* capital letter other than I, O and Q.
IsVinText(s) ==
    /\ Len(s) = 17
    /\ \A i \in 1..Len(s) :
          /\ Find("0123456789" \o UpperAlphabet, Char(s, i)) >= 0
          /\ Char(s, i) \notin {"I", "O", "Q"}

\* C26 as stated: the validator returns a VIN exactly for the inputs that,
\* after case normalization, are 17 characters from the digits and the
\* letters other than I, O, Q; the result is upper case, and any other input
\* yields null.
C26_VinExactlySeventeen ==
    (last.op = "validate_vin" /\ last.rec.v # NULL) =>
        /\ (last.outcome # NULL) <=> IsVinText(Upper(last.rec.v))
        /\ last.outcome # NULL => last.outcome = Upper(last.rec.v)

\* C26, amended: the validator returns a VIN exactly for the inputs that,
\* after trimming the blanks around them and case normalization, are 17
\* characters from the digits and the letters other than I, O, Q; the result
\* is that trimmed upper-case text, and any other input yields null.
C26_VinAfterTrimming ==
    (last.op = "validate_vin" /\ last.rec.v # NULL) =>
        /\ (last.outcome # NULL) <=> IsVinText(Upper(Strip(last.rec.v)))
        /\ last.outcome # NULL =>
              /\ last.outcome = Upper(Strip(last.rec.v))
              /\ last.outcome = Upper(last.outcome)

C26_Witness ==
    /\ last.op = "validate_vin"
    /\ last.rec.v = " 1hgcm82633a004352\n"
    /\ last.outcome = "1HGCM82633A004352"

\* C27: a year is accepted exactly when 1900 <= y <= currentYear + 1.  An
\* out-of-range year of a listing is stored as null, the record is kept and
\* its other fields are what they are with a null year; an out-of-range
\* year_min or year_max makes SearchCriteria raise, and no criteria exist.
C27_YearRange ==
    LET InRange(v) == 1900 <= ParseInt(v) /\ ParseInt(v) <= last.rec.currentYear + 1 IN
    /\ last.op = "CarListing" =>
          LET item == last.rec.item
              nulled == CarListingOf([item EXCEPT !.year = NULL], last.rec.currentYear) IN
          /\ last.outcome.raised = nulled.raised
          /\ ~last.outcome.raised =>
                /\ last.outcome.value.year =
                      IF item.year # NULL /\ InRange(item.year) THEN item.year ELSE NULL
                /\ [last.outcome.value EXCEPT !.year = NULL] = nulled.value
    /\ (last.op = "SearchCriteria" /\ last.rec.c.max_miles # "-1") =>
          LET c == last.rec.c IN
          /\ last.outcome.raised <=>
                \/ c.year_min # NULL /\ ~InRange(c.year_min)
                \/ c.year_max # NULL /\ ~InRange(c.year_max)
          /\ last.outcome.raised => last.outcome.value = NoRec
          /\ ~last.outcome.raised => last.outcome.value = c

C27_Witness ==
    /\ last.op = "CarListing"
    /\ ParseInt(last.rec.item.year) = last.rec.currentYear + 2
    /\ ~last.outcome.raised
    /\ last.outcome.value.year = NULL
    /\ last.outcome.value.id = "\"L4\""
    /\ last.outcome.value.miles = "-5"

\* C28: extract_listings drops the items that lack an id, and every other
\* item, that is every item that has an id, is returned, in response order.
C28_ItemsWithIdReturned ==
    last.op = "extract_listings" =>
        LET HasId(item) == item.id \notin {Missing, NULL}
            kept == SelectSeq(last.rec.listings_data, HasId) IN
        /\ Len(last.outcome) = Len(kept)
        /\ \A i \in 1..Len(kept) :
              Content(last.outcome[i].id) = Content(kept[i].id)

\* C29: no record returned by extract_listings carries a negative miles,
\* current_bid or buy_now_price; a negative value is returned as null.
C29_NoNegativeNumbers ==
    last.op = "extract_listings" =>
        \A i \in 1..Len(last.outcome) :
            \A f \in {"miles", "current_bid", "buy_now_price"} :
                ~StartsWith(last.outcome[i][f], "-")

\* C21: in every call of login, search, go_next_page and go_to_listing a
\* delay stands between any two consecutive actions among navigate, fill,
\* select and click, also when a year is typed in and when the suggestion
\* list is missing; every delay lies in min_delay_ms..max_delay_ms.
C21_DelayBetweenActions ==
    LET steps == Steps(last.op, last.rec)
        Acts(i) == steps[i] \in {"navigate", "fill", "select", "click"} IN
    /\ last.op = "_delay" =>
          /\ last.rec.min_delay_ms <= last.outcome
          /\ last.outcome <= last.rec.max_delay_ms
    /\ last.op \in {"login", "search", "go_next_page", "go_to_listing"} =>
          \A i, j \in 1..Len(steps) :
              (i < j /\ Acts(i) /\ Acts(j)) =>
                  \E k \in (i + 1)..(j - 1) : steps[k] = "delay"

\* C22: in the detail pass login is skipped only when the session snapshot
\* is present and the site accepts the restored session; with a snapshot
\* that is not accepted, the pass logs in before it fetches a detail page.
C22_LoginSkippedOnlyIfAccepted ==
    (last.op = "fetch_details.session" /\ dpc = "loop") =>
        \/ last.outcome = "logged_in"
        \/ last.rec.snapshot = "accepted"

\* C30: when a required setting or credential is missing, or the search
\* criteria fail validation, the search pipeline stops before anything is
\* attempted: no storage connection is opened, no run row is created and no
\* browser session is started.
C30_NothingAttemptedOnConfigError ==
    (/\ last.op = "search.setup"
     /\ \/ last.rec.missing # {}
        \/ SearchCriteriaOf(last.rec.criteria, last.rec.currentYear).raised) =>
        /\ spc = "done"
        /\ pool = "none"
        /\ run = NoRun
        /\ browser = "none"
        /\ completes = 0
        /\ events = {}

C30_Witness ==
    /\ last.op = "search.setup"
    /\ last.rec.missing = {}
    /\ last.rec.site_config = "found"
    /\ last.rec.connect = "ok"
    /\ last.rec.criteria.year_min = "1899"
    /\ last.outcome = "config_error"
    /\ spc = "done"
    /\ pool = "none"

\* C31: under every interleaving of the statements of upsert_listing and
\* upsert_detail calls of concurrent workers, each statement merges into its
\* row in one step: every stored row is still stored afterwards, once, none
\* of its non-null columns has become null, and each column holds the value
\* it held before or the value the statement's record carries.
C31_MergeIsIndivisible ==
    [][/\ \A x \in listings :
             /\ Cardinality({y \in listings' : KeyOf(y) = KeyOf(x)}) = 1
             /\ \A y \in listings' : KeyOf(y) = KeyOf(x) =>
                   \A f \in ListingFields :
                       /\ x[f] # NULL => y[f] # NULL
                       /\ \/ y[f] = x[f]
                          \/ /\ ListingStatement
                             /\ KeyOf(last'.rec) = KeyOf(x)
                             /\ y[f] = last'.rec[f]
       /\ \A x \in details :
             /\ Cardinality({y \in details' : y.vin = x.vin}) = 1
             /\ \A y \in details' : y.vin = x.vin =>
                   \A f \in DetailFields :
                       /\ x[f] # NULL => y[f] # NULL
                       /\ \/ y[f] = x[f]
                          \/ /\ DetailStatement
                             /\ last'.rec.vin = x.vin
                             /\ y[f] = last'.rec[f]]_vars

\* A call's detail statement lands after another worker's statement has
\* replaced the VIN of the same listing row, and a stored column survives a
\* record that carries no value for it.
C31_Witness ==
    /\ last.op = "upsert_detail" /\ last.outcome = "merged"
    /\ \E x \in listings :
          /\ KeyOf(x) = KeyOf(last.rec)
          /\ x.vin # NULL /\ x.vin # last.rec.vin
    /\ \E y \in details :
          /\ y.vin = last.rec.vin
          /\ last.rec.transmission = NULL /\ y.transmission # NULL

\* C32: no operation of the store deletes a listing row: in every step the
\* set of stored (source_site, id) keys keeps all the keys it had.
C32_ListingKeysOnlyGrow ==
    [][{KeyOf(x) : x \in listings} \subseteq {KeyOf(y) : y \in listings'}]_vars

\* A statement has merged into an existing row while another listing that
\* carries the same VIN under a different key is still stored.
C32_Witness ==
    /\ last.op \in {"upsert_listing", "upsert_detail_listing"}
    /\ last.outcome = "merged"
    /\ \E x \in listings, y \in listings :
          /\ KeyOf(x) = KeyOf(last.rec)
          /\ KeyOf(y) # KeyOf(x)
          /\ y.vin # NULL /\ y.vin = last.rec.vin

C34_SessionOrder ==
    [][/\ last'.op = "search.search" =>
              (last.op = "search.login" /\ last.rec.login = "true")
       /\ last'.op = "search.extract" =>
              /\ "page" \in bound
              /\ \/ last.op = "search.search" /\ last.outcome = "searched"
                 \/ last.op = "search.advance" /\ last.outcome = "next_page"
       /\ (last'.op = "search.login" /\ last'.rec.save_cookies # "not_called")
              => last'.rec.login = "true"
       /\ browser = "closed" =>
              last'.op \notin {"search.browser_start", "search.login",
                               "search.search", "search.extract",
                               "search.advance"}]_vars

\* A run that logged in, searched, read two pages and closed its browser.
C34_Witness ==
    /\ browser = "closed" /\ spc = "done"
    /\ {"extract", "advance"} \subseteq events
    /\ page = 2 /\ Len(extracted) >= 2
    /\ run.status = "completed"

\* C35: the page loop of a search run ends, whatever max_pages is and however
\* the site answers: a page is extracted only while page <= max_pages, a
\* pass through the loop either leaves it or adds one to the page number, the
\* records extracted in a run come from at most max_pages pages (each page
\* yields at most MaxBatch records), and a run that is in the loop leaves it.
C35_PageLoopTerminates ==
    /\ [][/\ last'.op = "search.extract" =>
                 (1 <= page /\ page <= max_pages /\ page' = page)
          /\ last'.op = "search.advance" =>
                 \/ spc' = "complete" /\ page' \in {page, page + 1}
                 \/ spc' = "extract" /\ page' = page + 1
          /\ Len(extracted') <= MaxBatch * max_pages']_vars
    /\ (spc \in {"extract", "save", "advance"})
          ~> (spc \notin {"extract", "save", "advance"})

\* The loop was left after max_pages full pages: the last pass moved the page
\* number beyond max_pages.
C35_Witness ==
    /\ last.op = "search.advance" /\ last.outcome = "last_page"
    /\ max_pages = MaxPages /\ page = max_pages + 1
    /\ Len(extracted) = MaxBatch * max_pages

\* C36: a search run issues at most one complete_run write: once a write has
\* given the run its terminal status, no later step of the run writes to the
\* run again.
C36_TerminalStatusKept ==
    [][completes >= 1 => (completes' = completes /\ run' = run)]_vars

\* C37: after any sequence of upsert_listing and upsert_detail calls every
\* detail row has a VIN and some listing row carries that VIN, also when a
\* later upsert_detail for the same (source_site, id) carries another VIN.
C37_NoOrphanDetail ==
    \A d \in details :
        /\ d.vin # NULL
        /\ \E x \in listings : x.vin = d.vin

\* C38: in the detail pass a navigation fault, an extraction that returns
\* None and a storage fault on one listing leave the pass in its loop: the
\* listings of the query are taken in order, each adds exactly one to fetched
\* or to errors unless it has no URL, so that fetched + errors + the number
\* of listings without URL is the number of listings processed, and a pass
\* that prints its summary has processed them all.
C38_EveryListingCountedOnce ==
    [][/\ last'.op = "fetch_detail" =>
              /\ dpc' = "loop" /\ idx' = idx + 1 /\ todo' = todo
              /\ last'.rec.id \in {todo[idx].id} \cup ModelIds
              /\ (fetched' + errors') - (fetched + errors)
                     = IF todo[idx].url = NULL THEN 0 ELSE 1
       /\ dpc' = "loop" =>
              fetched' + errors'
                  + Cardinality({i \in 1..(idx' - 1) : todo'[i].url = NULL})
                  = idx' - 1
       /\ last'.op = "fetch_details.summary" =>
              /\ idx' = Len(todo') + 1
              /\ fetched' + errors'
                     + Cardinality({i \in 1..Len(todo') : todo'[i].url = NULL})
                     = Len(todo')]_vars

\* A pass over two listings printed its summary after one listing failed and
\* one had no URL.
C38_Witness ==
    /\ last.op = "fetch_details.summary"
    /\ Len(todo) = 2
    /\ errors = 1 /\ fetched = 0
    /\ \E i \in 1..Len(todo) : todo[i].url = NULL

====
